---- MODULE Spec2Model ----
(***************************************************************************)
(* A model of weverse.py's object layer (weverse/objects/attachment.py,    *)
(* member.py, post.py): the constructors that turn a decoded JSON mapping  *)
(* into a view object, the identity contract (__eq__ / __hash__) and the   *)
(* attachment accessors of Post.                                           *)
(*                                                                         *)
(* A decoded JSON value is a record [t, v, m]: t is "null", "val" (a       *)
(* string, number or boolean, coded as a natural number) or "map" (a       *)
(* Python dict: the sequence m of <<key, value>> pairs in key-insertion    *)
(* order, keys distinct).  A Python expression that may raise evaluates to *)
(* a result record [ok, v, exc, arg]: the value v, or the exception class  *)
(* exc raised with the single argument arg.                                *)
(***************************************************************************)
EXTENDS Naturals, Sequences, FiniteSets, TLC

VARIABLES kind, data, a, b, out

vars == <<kind, data, a, b, out>>

(* ------------------------------ bounds ------------------------------- *)

\* ids are drawn from 1..MaxId
MaxId == 3

\* the other scalar fields of a payload are drawn from MaxVal alternatives
MaxVal == 2

\* an attachment bucket holds at most MaxEntries entries
MaxEntries == 2

(* --------------------------- decoded JSON ---------------------------- *)

Null == [t |-> "null", v |-> 0, m |-> <<>>]

Val(n) == [t |-> "val", v |-> n, m |-> <<>>]

Map(s) == [t |-> "map", v |-> 0, m |-> s]

EmptyMap == Map(<<>>)

Ok(x) == [ok |-> TRUE, v |-> x, exc |-> "", arg |-> ""]

Err(e, x) == [ok |-> FALSE, v |-> Null, exc |-> e, arg |-> x]

HasKey(d, k) == \E i \in 1..Len(d.m) : d.m[i][1] = k

Lookup(d, k) == d.m[CHOOSE i \in 1..Len(d.m) : d.m[i][1] = k][2]

\* Python's  k in d  on a dict
In(k, d) == d.t = "map" /\ HasKey(d, k)

\* Python's  d[k]
Item(d, k) ==
  IF d.t = "map"
    THEN IF HasKey(d, k) THEN Ok(Lookup(d, k)) ELSE Err("KeyError", k)
    ELSE Err("TypeError", "not subscriptable")

\* Python's  d[k1][k2]: the outer subscript first, its exception propagating
Item2(d, k1, k2) ==
  LET outer == Item(d, k1) IN IF outer.ok THEN Item(outer.v, k2) ELSE outer

\* Python's  d.get(k)
DictGet(d, k) ==
  IF d.t = "map"
    THEN IF HasKey(d, k) THEN Ok(Lookup(d, k)) ELSE Ok(Null)
    ELSE Err("AttributeError", "get")

\* Python's  d.values()
Values(d) ==
  IF d.t = "map"
    THEN Ok([i \in 1..Len(d.m) |-> d.m[i][2]])
    ELSE Err("AttributeError", "values")

\* Python's truth value of a decoded JSON value
Truthy(x) ==
  CASE x.t = "null" -> FALSE
    [] x.t = "map" -> Len(x.m) > 0
    [] OTHER -> x.v # 0

\* the statements of a constructor, in order: the first exception raised
\* leaves no object; without one the object is obj
Build(rs, obj) ==
  IF \A i \in 1..Len(rs) : rs[i].ok
    THEN Ok(obj)
    ELSE rs[CHOOSE i \in 1..Len(rs) : ~rs[i].ok /\ \A j \in 1..(i-1) : rs[j].ok]

(* --------------------------- attachment.py --------------------------- *)

\* Photo.__init__ reporting any missing key as one generic error
PhotoWrapped(d) ==
  LET id == Item(d, "photoId")
      url == Item(d, "url")
      height == Item(d, "height")
      width == Item(d, "width")
      r == Build(<<id, url, height, width>>,
                 [kind |-> "Photo", data |-> d, id |-> id.v, url |-> url.v,
                  height |-> height.v, width |-> width.v])
  IN IF r.ok THEN r ELSE Err("ValueError", "invalid payload")

Photo(d) ==
  LET id == Item(d, "photoId")
      url == Item(d, "url")
      height == Item(d, "height")
      width == Item(d, "width")
  IN Build(<<id, url, height, width>>,
           [kind |-> "Photo", data |-> d, id |-> id.v, url |-> url.v,
            height |-> height.v, width |-> width.v])

UploadInfo(d, k) == Item2(d, "uploadInfo", k)

Video(d) ==
  LET id == Item(d, "videoId")
      duration == UploadInfo(d, "playTime")
      height == UploadInfo(d, "height")
      width == UploadInfo(d, "width")
      thumbnail_url == UploadInfo(d, "imageUrl")
  IN Build(<<id, duration, height, width, thumbnail_url>>,
           [kind |-> "Video", data |-> d, id |-> id.v, duration |-> duration.v,
            height |-> height.v, width |-> width.v,
            thumbnail_url |-> thumbnail_url.v])

SnippetThumbnail(d) ==
  LET image == DictGet(d, "image")
  IN IF ~image.ok THEN image
     ELSE IF Truthy(image.v) THEN Item2(d, "image", "url") ELSE Ok(Null)

Snippet(d) ==
  LET id == Item(d, "snippetId")
      url == Item(d, "url")
      title == Item(d, "title")
      description == Item(d, "description")
      type == DictGet(d, "type")
      site == DictGet(d, "site")
      domain == Item(d, "domain")
      thumbnail_url == SnippetThumbnail(d)
  IN Build(<<id, url, title, description, type, site, domain, thumbnail_url>>,
           [kind |-> "Snippet", data |-> d, id |-> id.v, url |-> url.v,
            title |-> title.v, description |-> description.v, type |-> type.v,
            site |-> site.v, domain |-> domain.v,
            thumbnail_url |-> thumbnail_url.v])

(* ----------------------------- member.py ----------------------------- *)

\* PartialMember.__init__ reading the profile type with a default
PartialMemberLenient(d) ==
  LET id == Item(d, "memberId")
      name == Item(d, "profileName")
      image_url == DictGet(d, "profileImageUrl")
      profile_type == DictGet(d, "profileType")
  IN Build(<<id, name, image_url, profile_type>>,
           [kind |-> "PartialMember", data |-> d, id |-> id.v, name |-> name.v,
            image_url |-> image_url.v, profile_type |-> profile_type.v])

PartialMember(d) ==
  LET id == Item(d, "memberId")
      name == Item(d, "profileName")
      image_url == DictGet(d, "profileImageUrl")
      profile_type == Item(d, "profileType")
  IN Build(<<id, name, image_url, profile_type>>,
           [kind |-> "PartialMember", data |-> d, id |-> id.v, name |-> name.v,
            image_url |-> image_url.v, profile_type |-> profile_type.v])

Birthday(d) == Item2(d, "birthday", "date")

ArtistProfile(d) ==
  LET official_name == Item(d, "officialName")
      official_image_url == Item(d, "officialImageUrl")
      birthday == Birthday(d)
  IN Build(<<official_name, official_image_url, birthday>>,
           [kind |-> "ArtistProfile", official_name |-> official_name.v,
            official_image_url |-> official_image_url.v,
            birthday |-> birthday.v])

\* ArtistProfile(data["artistOfficialProfile"])
\*   if "artistOfficialProfile" in data else None
OptionalArtistProfile(d) ==
  IF In("artistOfficialProfile", d)
    THEN ArtistProfile(Lookup(d, "artistOfficialProfile"))
    ELSE Ok(Null)

Artist(d) ==
  LET base == PartialMember(d)
      community_id == Item(d, "communityId")
      sub == Item(d, "artistOfficialProfile")
      artist_profile == IF sub.ok THEN ArtistProfile(sub.v) ELSE sub
      join_date == Item(d, "joinedDate")
  IN Build(<<base, community_id, artist_profile, join_date>>,
           [kind |-> "Artist", community_id |-> community_id.v,
            artist_profile |-> artist_profile.v, join_date |-> join_date.v]
             @@ base.v)

\* data["profileSpaceStatus"] == "ACCESSIBLE"; the string is coded as 1
Accessible(r) == IF r.ok THEN Ok(r.v = Val(1)) ELSE r

PostAuthor(d) ==
  LET base == PartialMember(d)
      community_id == Item(d, "communityId")
      has_joined == Item(d, "joined")
      is_official == Item(d, "hasOfficialMark")
      profile_is_accessible == Accessible(Item(d, "profileSpaceStatus"))
      is_my_profile == Item(d, "myProfile")
      artist_profile == OptionalArtistProfile(d)
  IN Build(<<base, community_id, has_joined, is_official,
             profile_is_accessible, is_my_profile, artist_profile>>,
           [kind |-> "PostAuthor", community_id |-> community_id.v,
            has_joined |-> has_joined.v, is_official |-> is_official.v,
            profile_is_accessible |-> profile_is_accessible.v,
            is_my_profile |-> is_my_profile.v,
            artist_profile |-> artist_profile.v]
             @@ base.v)

\* the follower count read without the presence check
FollowCountUnchecked(d) == Item2(d, "followCount", "followerCount")

\* data["followCount"]["followerCount"] if "followCount" in data else None
FollowCount(d) ==
  IF In("followCount", d) THEN Item2(d, "followCount", "followerCount")
  ELSE Ok(Null)

\* Member.__init__ storing the cover image as the profile image
MemberOverride(d) ==
  LET base == PartialMember(d)
      cover == DictGet(d, "profileCoverImageUrl")
      community_id == Item(d, "communityId")
      follow_count == FollowCount(d)
      artist_profile == OptionalArtistProfile(d)
  IN Build(<<base, community_id, follow_count, artist_profile>>,
           [kind |-> "Member", image_url |-> cover.v,
            community_id |-> community_id.v,
            follow_count |-> follow_count.v,
            artist_profile |-> artist_profile.v]
             @@ base.v)

Member(d) ==
  LET base == PartialMember(d)
      community_id == Item(d, "communityId")
      profile_cover_image_url == DictGet(d, "profileCoverImageUrl")
      profile_comment == DictGet(d, "profileComment")
      has_joined == Item(d, "joined")
      has_membership == Item(d, "hasMembership")
      is_official == Item(d, "hasOfficialMark")
      is_hidden == Item(d, "hidden")
      is_blinded == Item(d, "blinded")
      is_followed == Item(d, "followed")
      is_my_profile == Item(d, "myProfile")
      first_joined_at == Item(d, "firstJoinAt")
      follow_count == FollowCount(d)
      artist_profile == OptionalArtistProfile(d)
  IN Build(<<base, community_id, profile_cover_image_url, profile_comment,
             has_joined, has_membership, is_official, is_hidden, is_blinded,
             is_followed, is_my_profile, first_joined_at, follow_count,
             artist_profile>>,
           [kind |-> "Member", community_id |-> community_id.v,
            profile_cover_image_url |-> profile_cover_image_url.v,
            profile_comment |-> profile_comment.v,
            has_joined |-> has_joined.v, has_membership |-> has_membership.v,
            is_official |-> is_official.v, is_hidden |-> is_hidden.v,
            is_blinded |-> is_blinded.v, is_followed |-> is_followed.v,
            is_my_profile |-> is_my_profile.v,
            first_joined_at |-> first_joined_at.v,
            follow_count |-> follow_count.v,
            artist_profile |-> artist_profile.v]
             @@ base.v)

(* ------------------------------ post.py ------------------------------ *)

\* weverse/objects/community.py: a lightweight reference holding the
\* community's id and name, both required
PartialCommunity(d) ==
  LET id == Item(d, "communityId")
      name == Item(d, "communityName")
  IN Build(<<id, name>>,
           [kind |-> "PartialCommunity", data |-> d, id |-> id.v,
            name |-> name.v])

PostLike(d) ==
  LET id == Item(d, "postId")
      body == Item(d, "body")
      plain_body == Item(d, "plainBody")
      url == Item(d, "shareUrl")
      like_count == Item(d, "emotionCount")
      comment_count == Item(d, "commentCount")
      published_at == Item(d, "publishedAt")
      is_bookmarked == Item(d, "bookmarked")
      is_locked == Item(d, "locked")
      is_hidden_from_artist == Item(d, "hideFromArtist")
      is_membership_only == Item(d, "membershipOnly")
      has_product == Item(d, "hasProduct")
      hashtags == Item(d, "tags")
      post_type == Item(d, "postType")
      section_type == Item(d, "sectionType")
      author_data == Item(d, "author")
      author == IF author_data.ok THEN PostAuthor(author_data.v) ELSE author_data
      community_data == Item(d, "community")
      community == IF community_data.ok THEN PartialCommunity(community_data.v)
                   ELSE community_data
      like_id == DictGet(d, "viewerEmotionId")
  IN Build(<<id, body, plain_body, url, like_count, comment_count,
             published_at, is_bookmarked, is_locked, is_hidden_from_artist,
             is_membership_only, has_product, hashtags, post_type,
             section_type, author, community, like_id>>,
           [kind |-> "PostLike", data |-> d, id |-> id.v, body |-> body.v,
            plain_body |-> plain_body.v, url |-> url.v,
            like_count |-> like_count.v, comment_count |-> comment_count.v,
            published_at |-> published_at.v,
            is_bookmarked |-> is_bookmarked.v, is_locked |-> is_locked.v,
            is_hidden_from_artist |-> is_hidden_from_artist.v,
            is_membership_only |-> is_membership_only.v,
            has_product |-> has_product.v, hashtags |-> hashtags.v,
            post_type |-> post_type.v, section_type |-> section_type.v,
            author |-> author.v, community |-> community.v,
            like_id |-> like_id.v])

\* class Post(PostLike) defines no __init__ of its own
Post(d) ==
  LET base == PostLike(d)
  IN Build(<<base>>, [kind |-> "Post"] @@ base.v)

\* the call  k(d)
New(k, d) ==
  CASE k = "Photo" -> Photo(d)
    [] k = "Video" -> Video(d)
    [] k = "Snippet" -> Snippet(d)
    [] k = "PartialMember" -> PartialMember(d)
    [] k = "ArtistProfile" -> ArtistProfile(d)
    [] k = "Artist" -> Artist(d)
    [] k = "PostAuthor" -> PostAuthor(d)
    [] k = "Member" -> Member(d)
    [] k = "PostLike" -> PostLike(d)
    [] k = "Post" -> Post(d)

\* the list comprehension walking the bucket's values last to first
ComprehensionReversed(vals, cls) ==
  LET rs == [i \in 1..Len(vals) |-> New(cls, vals[Len(vals) + 1 - i])]
  IN Build(rs, [i \in 1..Len(vals) |-> rs[i].v])

\* the list comprehension [Cls(x) for x in bucket.values()]
Comprehension(vals, cls) ==
  LET rs == [i \in 1..Len(vals) |-> New(cls, vals[i])]
  IN Build(rs, [i \in 1..Len(vals) |-> rs[i].v])

\* the body shared by Post.photos, Post.videos and Post.snippets, for the
\* bucket named k and the class cls:
\*   if not self.data["attachment"].get(k): return []
\*   return [cls(x) for x in self.data["attachment"][k].values()]
Accessor(self, k, cls) ==
  LET att == Item(self.data, "attachment")
      probe == IF att.ok THEN DictGet(att.v, k) ELSE att
      bucket == Item2(self.data, "attachment", k)
      vals == IF bucket.ok THEN Values(bucket.v) ELSE bucket
  IN IF ~probe.ok THEN probe
     ELSE IF ~Truthy(probe.v) THEN Ok(<<>>)
     ELSE IF ~vals.ok THEN vals
     ELSE Comprehension(vals.v, cls)

photos(self) == Accessor(self, "photo", "Photo")

videos(self) == Accessor(self, "video", "Video")

snippets(self) == Accessor(self, "snippet", "Snippet")

(* ------------------------ the identity contract ---------------------- *)

\* the class a class inherits from ("object" when it names no base)
Base(k) ==
  CASE k \in {"Artist", "PostAuthor", "Member"} -> "PartialMember"
    [] k = "Post" -> "PostLike"
    [] OTHER -> "object"

\* Python's  isinstance(x, cls)
IsInstance(x, cls) == x.kind = cls \/ Base(x.kind) = cls

Photo__eq__(self, other) ==
  IF IsInstance(other, self.kind) THEN Ok(self.id = other.id)
  ELSE Err("NotImplementedError", "")

Video__eq__(self, other) ==
  IF IsInstance(other, self.kind) THEN Ok(self.id = other.id)
  ELSE Err("NotImplementedError", "")

Snippet__eq__(self, other) ==
  IF IsInstance(other, self.kind) THEN Ok(self.id = other.id)
  ELSE Err("NotImplementedError", "")

\* PartialMember.__eq__ comparing the display names instead of the ids
PartialMember__eq__ByName(self, other) ==
  IF IsInstance(other, self.kind) THEN Ok(self.name = other.name)
  ELSE Err("NotImplementedError", "")

PartialMember__eq__(self, other) ==
  IF IsInstance(other, self.kind) THEN Ok(self.id = other.id)
  ELSE Err("NotImplementedError", "")

PostLike__eq__(self, other) ==
  IF IsInstance(other, self.kind) THEN Ok(self.id = other.id)
  ELSE Err("NotImplementedError", "")

\* the builtin hash() of an id: some fixed function of the value, under
\* which distinct ids may collide
hash(x) == x.v % 2

Photo__hash__(self) == hash(self.id)

Video__hash__(self) == hash(self.id)

Snippet__hash__(self) == hash(self.id)

\* PartialMember.__hash__ hashing the pair (id, name)
PartialMember__hash__WithName(self) == (hash(self.id) + self.name.v) % 2

PartialMember__hash__(self) == hash(self.id)

PostLike__hash__(self) == hash(self.id)

\* the class whose __eq__ and __hash__ an object of class k runs
Defining(k) == IF Base(k) = "object" THEN k ELSE Base(k)

\* self.__eq__(other)
Eq(self, other) ==
  CASE Defining(self.kind) = "Photo" -> Photo__eq__(self, other)
    [] Defining(self.kind) = "Video" -> Video__eq__(self, other)
    [] Defining(self.kind) = "Snippet" -> Snippet__eq__(self, other)
    [] Defining(self.kind) = "PartialMember" -> PartialMember__eq__(self, other)
    [] Defining(self.kind) = "PostLike" -> PostLike__eq__(self, other)

\* hash(self)
Hash(self) ==
  CASE Defining(self.kind) = "Photo" -> Photo__hash__(self)
    [] Defining(self.kind) = "Video" -> Video__hash__(self)
    [] Defining(self.kind) = "Snippet" -> Snippet__hash__(self)
    [] Defining(self.kind) = "PartialMember" -> PartialMember__hash__(self)
    [] Defining(self.kind) = "PostLike" -> PostLike__hash__(self)

\* x == y as the interpreter runs it: when y's class is a proper subclass of
\* x's, y.__eq__(x) is tried first; no __eq__ here returns NotImplemented,
\* so the first method called decides
EqOperator(x, y) ==
  IF x.kind # y.kind /\ Base(y.kind) = x.kind THEN Eq(y, x) ELSE Eq(x, y)

(* ------------------------------ payloads ----------------------------- *)

\* the value the payload numbered x stores under its j-th scalar key
F(j, x) == Val(10 * j + x)

PhotoData(i, x) ==
  Map(<< <<"photoId", Val(i)>>, <<"url", F(1, x)>>, <<"height", F(2, x)>>,
         <<"width", F(3, x)>> >>)

VideoData(i, x) ==
  Map(<< <<"videoId", Val(i)>>,
         <<"uploadInfo", Map(<< <<"playTime", F(1, x)>>, <<"height", F(2, x)>>,
                                <<"width", F(3, x)>>, <<"imageUrl", F(4, x)>> >>)>> >>)

SnippetData(i, x) ==
  Map(<< <<"snippetId", Val(i)>>, <<"url", F(1, x)>>, <<"title", F(2, x)>>,
         <<"description", F(3, x)>>, <<"type", F(4, x)>>, <<"site", F(5, x)>>,
         <<"domain", F(6, x)>>, <<"image", Map(<< <<"url", F(7, x)>> >>)>> >>)

ArtistProfileData(x) ==
  Map(<< <<"officialName", F(21, x)>>, <<"officialImageUrl", F(22, x)>>,
         <<"birthday", Map(<< <<"date", F(23, x)>> >>)>> >>)

PartialMemberData(i, x) ==
  Map(<< <<"memberId", Val(i)>>, <<"profileName", F(1, x)>>,
         <<"profileImageUrl", F(2, x)>>, <<"profileType", F(3, x)>> >>)

ArtistData(i, x) ==
  Map(PartialMemberData(i, x).m \o
      << <<"communityId", F(4, x)>>,
         <<"artistOfficialProfile", ArtistProfileData(x)>>,
         <<"joinedDate", F(5, x)>> >>)

PostAuthorData(i, x) ==
  Map(PartialMemberData(i, x).m \o
      << <<"communityId", F(4, x)>>, <<"joined", F(5, x)>>,
         <<"hasOfficialMark", F(6, x)>>, <<"profileSpaceStatus", Val(x)>>,
         <<"myProfile", F(7, x)>>,
         <<"artistOfficialProfile", ArtistProfileData(x)>> >>)

MemberData(i, x) ==
  Map(PartialMemberData(i, x).m \o
      << <<"communityId", F(4, x)>>, <<"profileCoverImageUrl", F(5, x)>>,
         <<"profileComment", F(6, x)>>, <<"joined", F(7, x)>>,
         <<"hasMembership", F(8, x)>>, <<"hasOfficialMark", F(9, x)>>,
         <<"hidden", F(10, x)>>, <<"blinded", F(11, x)>>,
         <<"followed", F(12, x)>>, <<"myProfile", F(13, x)>>,
         <<"firstJoinAt", F(14, x)>>,
         <<"followCount", Map(<< <<"followerCount", F(15, x)>> >>)>>,
         <<"artistOfficialProfile", ArtistProfileData(x)>> >>)

PartialCommunityData(x) ==
  Map(<< <<"communityId", F(31, x)>>, <<"communityName", F(32, x)>> >>)

PostLikeData(i, x) ==
  Map(<< <<"postId", Val(i)>>, <<"body", F(1, x)>>, <<"plainBody", F(2, x)>>,
         <<"shareUrl", F(3, x)>>, <<"emotionCount", F(4, x)>>,
         <<"commentCount", F(5, x)>>, <<"publishedAt", F(6, x)>>,
         <<"bookmarked", F(7, x)>>, <<"locked", F(8, x)>>,
         <<"hideFromArtist", F(9, x)>>, <<"membershipOnly", F(10, x)>>,
         <<"hasProduct", F(11, x)>>, <<"tags", F(12, x)>>,
         <<"postType", F(13, x)>>, <<"sectionType", F(14, x)>>,
         <<"author", PostAuthorData(i, x)>>,
         <<"community", PartialCommunityData(x)>>,
         <<"viewerEmotionId", F(15, x)>> >>)

\* a post's payload with the attachment section att
PostData(i, x, att) == Map(PostLikeData(i, x).m \o << <<"attachment", att>> >>)

RECURSIVE Paths(_)
\* the key paths of a mapping, through its nested mappings
Paths(d) ==
  IF d.t # "map" THEN {}
  ELSE UNION { {<<d.m[j][1]>>} \cup { <<d.m[j][1]>> \o p : p \in Paths(d.m[j][2]) }
               : j \in 1..Len(d.m) }

RECURSIVE Drop(_, _)
\* the mapping d without the key at path p
Drop(d, p) ==
  IF Len(p) = 1
    THEN LET Keep(e) == e[1] # p[1] IN Map(SelectSeq(d.m, Keep))
    ELSE Map([j \in 1..Len(d.m) |->
               IF d.m[j][1] = p[1] THEN <<d.m[j][1], Drop(d.m[j][2], Tail(p))>>
               ELSE d.m[j]])

RECURSIVE Put(_, _, _)
\* the mapping d with x stored under the key at path p
Put(d, p, x) ==
  Map([j \in 1..Len(d.m) |->
        IF d.m[j][1] # p[1] THEN d.m[j]
        ELSE IF Len(p) = 1 THEN <<d.m[j][1], x>>
        ELSE <<d.m[j][1], Put(d.m[j][2], Tail(p), x)>>])

\* d itself and d with one key dropped, set to null or set to an empty mapping
Edited(d) ==
  {d} \cup { Drop(d, p) : p \in Paths(d) }
      \cup { Put(d, p, Null) : p \in Paths(d) }
      \cup { Put(d, p, EmptyMap) : p \in Paths(d) }

EntityKinds ==
  {"Photo", "Video", "Snippet", "PartialMember", "Artist", "PostAuthor",
   "Member", "PostLike", "Post"}

Kinds == EntityKinds \cup {"ArtistProfile"}

\* a complete payload of class k
FullData(k, i, x) ==
  CASE k = "Photo" -> PhotoData(i, x)
    [] k = "Video" -> VideoData(i, x)
    [] k = "Snippet" -> SnippetData(i, x)
    [] k = "PartialMember" -> PartialMemberData(i, x)
    [] k = "ArtistProfile" -> ArtistProfileData(x)
    [] k = "Artist" -> ArtistData(i, x)
    [] k = "PostAuthor" -> PostAuthorData(i, x)
    [] k = "Member" -> MemberData(i, x)
    [] k = "PostLike" -> PostLikeData(i, x)
    [] k = "Post" ->
         PostData(i, x, Map(<< <<"photo", Map(<< <<ToString(i), PhotoData(i, x)>> >>)>> >>))

Inputs(k) ==
  UNION { Edited(FullData(k, i, x)) : i \in 1..MaxId, x \in 1..MaxVal }

\* the objects the equality and hash operations are applied to
Objects ==
  { New(k, FullData(k, i, x)).v : k \in EntityKinds, i \in 1..MaxId, x \in 1..MaxVal }

\* the attachment sections of the posts the accessors are applied to
IdSeqs(n) == { s \in [1..n -> 1..MaxId] : \A j, l \in 1..n : s[j] = s[l] => j = l }

\* an attachment bucket of class cls: the entries of the ids in the sequence
\* ids, keyed by id, in that order
Bucket(ids, x, cls) ==
  Map([j \in 1..Len(ids) |-> <<ToString(ids[j]), FullData(cls, ids[j], x)>>])

\* the buckets: every sequence of at most MaxEntries entries with distinct
\* ids, a null bucket, and a bucket whose one entry lacks its id key
Buckets(x, cls) ==
  { Bucket(ids, x, cls) : ids \in UNION { IdSeqs(n) : n \in 0..MaxEntries } }
    \cup { Null }
    \cup { Map(<< <<"1", Map(Tail(FullData(cls, 1, x).m))>> >>) }

\* stands for a key that the attachment section does not hold
Absent == [t |-> "absent", v |-> 0, m |-> <<>>]

Section(k, bucket) ==
  IF bucket = Absent THEN <<>> ELSE << <<k, bucket>> >>

\* the attachment sections: one bucket ranges over Buckets while each other
\* bucket is absent or holds one entry; and a null section
Sections(x) ==
  LET Rich(cls) == Buckets(x, cls) \cup {Absent}
      Poor(cls) == {Bucket(<<1>>, x, cls), Absent}
      Sec(p, v, s) ==
        Map(Section("photo", p) \o Section("video", v) \o Section("snippet", s))
  IN { Sec(p, v, s) : p \in Rich("Photo"), v \in Poor("Video"), s \in Poor("Snippet") }
     \cup { Sec(p, v, s) : p \in Poor("Photo"), v \in Rich("Video"), s \in Poor("Snippet") }
     \cup { Sec(p, v, s) : p \in Poor("Photo"), v \in Poor("Video"), s \in Rich("Snippet") }
     \cup { Null }

Posts ==
  UNION { { Post(PostData(1, x, att)).v : att \in Sections(x) } : x \in 1..MaxVal }
    \cup { Post(PostLikeData(1, x)).v : x \in 1..MaxVal }

(* ---------------------------- the machine ---------------------------- *)

None == [kind |-> "None"]

Idle == [op |-> "idle"]

\* a payload decoded by the transport is handed to a constructor
Init ==
  /\ kind \in Kinds
  /\ data \in Inputs(kind)
  /\ a = None
  /\ b = None
  /\ out = Idle

\* the constructor of class kind runs on the payload
Construct ==
  /\ out.op = "idle"
  /\ kind \in Kinds
  /\ LET r == New(kind, data)
     IN /\ out' = [op |-> "new", r |-> r]
        /\ a' = IF r.ok THEN r.v ELSE None
  /\ UNCHANGED <<kind, data, b>>

Next == Construct

Spec == Init /\ [][Next]_vars

\* two constructed entities meet in a comparison or a hash lookup
InitEq ==
  /\ kind = "none"
  /\ data = Null
  /\ a \in Objects
  /\ b \in Objects
  /\ out = Idle

\* a.__eq__(b), called as a method
CallEq ==
  /\ out.op = "idle"
  /\ out' = [op |-> "__eq__", r |-> Eq(a, b)]
  /\ UNCHANGED <<kind, data, a, b>>

\* a == b
Compare ==
  /\ out.op = "idle"
  /\ out' = [op |-> "==", r |-> EqOperator(a, b)]
  /\ UNCHANGED <<kind, data, a, b>>

\* hash(a) and hash(b)
CallHash ==
  /\ out.op = "idle"
  /\ out' = [op |-> "hash", ra |-> Hash(a), rb |-> Hash(b)]
  /\ UNCHANGED <<kind, data, a, b>>

NextEq == CallEq \/ Compare \/ CallHash

SpecEq == InitEq /\ [][NextEq]_vars

\* a constructed post whose attachments are read
InitPost ==
  /\ kind = "Post"
  /\ data = Null
  /\ a \in Posts
  /\ b = None
  /\ out = Idle

ReadPhotos ==
  /\ out.op = "idle"
  /\ out' = [op |-> "photos", r |-> photos(a)]
  /\ UNCHANGED <<kind, data, a, b>>

ReadVideos ==
  /\ out.op = "idle"
  /\ out' = [op |-> "videos", r |-> videos(a)]
  /\ UNCHANGED <<kind, data, a, b>>

ReadSnippets ==
  /\ out.op = "idle"
  /\ out' = [op |-> "snippets", r |-> snippets(a)]
  /\ UNCHANGED <<kind, data, a, b>>

NextPost == ReadPhotos \/ ReadVideos \/ ReadSnippets

SpecPost == InitPost /\ [][NextPost]_vars

(* ------------------- a post whose payload changes -------------------- *)

\* the bucket key under which the attachments of class cls are stored
KeyOf(cls) ==
  CASE cls = "Photo" -> "photo"
    [] cls = "Video" -> "video"
    [] cls = "Snippet" -> "snippet"

\* the alternatives an entry written into a bucket is drawn from
LiveVals == {1, MaxVal}

\* Python's  d["attachment"][k][str(i)] = entry  on the retained dict: an
\* existing key keeps its place, a new key goes last; a bucket that is not
\* there is created first
SetEntry(d, k, i, entry) ==
  LET att == Lookup(d, "attachment")
  IN IF ~HasKey(att, k)
       THEN Put(d, <<"attachment">>,
                Map(att.m \o << <<k, Map(<< <<ToString(i), entry>> >>)>> >>))
     ELSE IF HasKey(Lookup(att, k), ToString(i))
       THEN Put(d, <<"attachment", k, ToString(i)>>, entry)
     ELSE Put(d, <<"attachment", k>>,
              Map(Lookup(att, k).m \o << <<ToString(i), entry>> >>))

\* an accessor that keeps the list it computed and returns it again
CallAccessorMemoized(self, name) ==
  IF "memo" \in DOMAIN self /\ self.memo.op = name
    THEN [r |-> self.memo.r, self |-> self]
    ELSE LET r == CASE name = "photos" -> photos(self)
                    [] name = "videos" -> videos(self)
                    [] name = "snippets" -> snippets(self)
         IN [r |-> r,
             self |-> [memo |-> [op |-> name, r |-> r]]
                        @@ [f \in DOMAIN self \ {"memo"} |-> self[f]]]

\* reading the property name of self: the list it returns (or the exception
\* it raises) and self after the call; the property bodies assign nothing
CallAccessor(self, name) ==
  [r |-> CASE name = "photos" -> photos(self)
           [] name = "videos" -> videos(self)
           [] name = "snippets" -> snippets(self),
   self |-> self]

\* a post whose three buckets hold one entry each; kind is the class of the
\* attachments that the holder of the payload goes on to change
InitLive ==
  /\ kind \in {"Photo", "Video", "Snippet"}
  /\ data = Null
  /\ a = Post(PostData(1, 1,
                Map(<< <<"photo", Bucket(<<1>>, 1, "Photo")>>,
                       <<"video", Bucket(<<1>>, 1, "Video")>>,
                       <<"snippet", Bucket(<<1>>, 1, "Snippet")>> >>))).v
  /\ b = None
  /\ out = Idle

\* the property name is read; out keeps the call before it when no change
\* came in between
Access(name) ==
  LET c == CallAccessor(a, name)
  IN /\ out' = [op |-> name, r |-> c.r, before |-> a,
                last |-> IF out.op \in {"photos", "videos", "snippets"}
                           THEN [op |-> out.op, r |-> out.r]
                           ELSE [op |-> "none"]]
     /\ a' = c.self
     /\ UNCHANGED <<kind, data, b>>

LivePhotos == Access("photos")

LiveVideos == Access("videos")

LiveSnippets == Access("snippets")

\* the holder of the payload writes an entry into the bucket (self.data is
\* the caller's dict itself, not a copy)
PutEntry ==
  \E i \in 1..MaxId, x \in LiveVals :
    LET att == Lookup(a.data, "attachment")
        k == KeyOf(kind)
        size == IF HasKey(att, k) THEN Len(Lookup(att, k).m) ELSE 0
        known == HasKey(att, k) /\ HasKey(Lookup(att, k), ToString(i))
    IN /\ known \/ size < MaxEntries
       /\ a' = [a EXCEPT !.data = SetEntry(a.data, k, i, FullData(kind, i, x))]
       /\ a'.data # a.data
       /\ out' = [op |-> "change"]
       /\ UNCHANGED <<kind, data, b>>

\* the holder deletes an entry of the bucket
DelEntry ==
  \E i \in 1..MaxId :
    LET att == Lookup(a.data, "attachment")
        k == KeyOf(kind)
    IN /\ HasKey(att, k)
       /\ HasKey(Lookup(att, k), ToString(i))
       /\ a' = [a EXCEPT !.data = Drop(a.data, <<"attachment", k, ToString(i)>>)]
       /\ out' = [op |-> "change"]
       /\ UNCHANGED <<kind, data, b>>

\* the holder deletes the bucket
DelBucket ==
  /\ HasKey(Lookup(a.data, "attachment"), KeyOf(kind))
  /\ a' = [a EXCEPT !.data = Drop(a.data, <<"attachment", KeyOf(kind)>>)]
  /\ out' = [op |-> "change"]
  /\ UNCHANGED <<kind, data, b>>

NextLive ==
  LivePhotos \/ LiveVideos \/ LiveSnippets \/ PutEntry \/ DelEntry \/ DelBucket

SpecLive == InitLive /\ [][NextLive]_vars

(* ----------------------------- properties --------------------------- *)

\* C1: for two entities of the same concrete kind, equality (the method
\* a.__eq__(b) and the operator a == b alike) returns a boolean, and it is
\* true exactly when the two ids are equal, whatever the other fields hold.
C1_EqualIffSameId ==
  (out.op \in {"__eq__", "=="} /\ a.kind = b.kind)
    => (out.r.ok /\ out.r.v = (a.id = b.id))

\* C1's case: two fetches of one id whose payloads differ compare equal
C1_Witness ==
  /\ out.op = "__eq__"
  /\ a.kind = "Member" /\ b.kind = "Member"
  /\ a.id = b.id /\ a.name # b.name
  /\ out.r.ok /\ out.r.v = TRUE

\* C2: for two entities whose concrete kinds differ, equality raises and
\* returns no boolean, in both argument orders, also when one kind
\* specializes the other and when the ids are equal.
C2_CrossKindRaises ==
  (out.op \in {"__eq__", "=="} /\ a.kind # b.kind) => ~out.r.ok

\* C3: the hash of an entity is hash(id) and nothing else: entities that
\* are equal, or merely share an id, have equal hashes whatever their other
\* fields hold.
C3_HashOfIdAlone ==
  out.op = "hash" =>
    /\ out.ra = hash(a.id)
    /\ out.rb = hash(b.id)
    /\ (a.id = b.id => out.ra = out.rb)
    /\ (a.kind = b.kind /\ Eq(a, b).ok /\ Eq(a, b).v => out.ra = out.rb)

\* C3's case: equal entities built from different payloads hash alike
C3_Witness ==
  /\ out.op = "hash"
  /\ a.kind = "PostAuthor" /\ b.kind = "PostAuthor"
  /\ a.id = b.id /\ a.data # b.data
  /\ out.ra = out.rb

\* the bucket an accessor reads and the class it constructs
BucketOf(op) ==
  CASE op = "photos" -> [key |-> "photo", cls |-> "Photo"]
    [] op = "videos" -> [key |-> "video", cls |-> "Video"]
    [] op = "snippets" -> [key |-> "snippet", cls |-> "Snippet"]

Accessors == {"photos", "videos", "snippets"}

\* C4: for a post whose payload has an attachment section, an accessor
\* returns the empty sequence when its bucket is missing or an empty
\* mapping, and otherwise (the bucket's entries being constructible) a
\* sequence as long as the bucket whose i-th element is constructed from the
\* bucket's i-th value in key-insertion order.
C4_AccessorFollowsBucket ==
  (/\ out.op \in Accessors
   /\ In("attachment", a.data)
   /\ Lookup(a.data, "attachment").t = "map")
    => LET att == Lookup(a.data, "attachment")
           k == BucketOf(out.op).key
           cls == BucketOf(out.op).cls
       IN IF ~HasKey(att, k) \/ Lookup(att, k) = EmptyMap
            THEN out.r = Ok(<<>>)
            ELSE LET bk == Lookup(att, k)
                 IN (bk.t = "map" /\ \A j \in 1..Len(bk.m) : New(cls, bk.m[j][2]).ok)
                      => /\ out.r.ok
                         /\ Len(out.r.v) = Len(bk.m)
                         /\ \A j \in 1..Len(bk.m) :
                              out.r.v[j] = New(cls, bk.m[j][2]).v

\* C4's case: a bucket of two photos inserted in the order id 2, id 1
C4_Witness ==
  /\ out.op = "photos"
  /\ out.r.ok
  /\ Len(out.r.v) = 2
  /\ out.r.v[1].id = Val(2)
  /\ out.r.v[2].id = Val(1)

\* C5: for a post whose payload has no "attachment" key, each accessor
\* returns the empty sequence.
C5_NoAttachmentGivesEmpty ==
  (out.op \in Accessors /\ ~In("attachment", a.data)) => out.r = Ok(<<>>)

\* the optional fields of each class: the top-level key each is read
\* through and the attribute it fills
PartialMemberOptional == { [key |-> "profileImageUrl", attr |-> "image_url"] }

OptionalFields(k) ==
  CASE k = "Snippet" ->
         { [key |-> "type", attr |-> "type"], [key |-> "site", attr |-> "site"],
           [key |-> "image", attr |-> "thumbnail_url"] }
    [] k \in {"PartialMember", "Artist"} -> PartialMemberOptional
    [] k = "PostAuthor" ->
         PartialMemberOptional
           \cup { [key |-> "artistOfficialProfile", attr |-> "artist_profile"] }
    [] k = "Member" ->
         PartialMemberOptional
           \cup { [key |-> "profileCoverImageUrl", attr |-> "profile_cover_image_url"],
                  [key |-> "profileComment", attr |-> "profile_comment"],
                  [key |-> "followCount", attr |-> "follow_count"],
                  [key |-> "artistOfficialProfile", attr |-> "artist_profile"] }
    [] k \in {"PostLike", "Post"} ->
         { [key |-> "viewerEmotionId", attr |-> "like_id"] }
    [] OTHER -> {}

\* the required scalar fields of each class: the attribute and the key path
\* it is read from
PartialMemberRequired ==
  { <<"id", <<"memberId">> >>, <<"name", <<"profileName">> >>,
    <<"profile_type", <<"profileType">> >> }

RequiredFields(k) ==
  CASE k = "Photo" ->
         { <<"id", <<"photoId">> >>, <<"url", <<"url">> >>,
           <<"height", <<"height">> >>, <<"width", <<"width">> >> }
    [] k = "Video" ->
         { <<"id", <<"videoId">> >>, <<"duration", <<"uploadInfo", "playTime">> >>,
           <<"height", <<"uploadInfo", "height">> >>,
           <<"width", <<"uploadInfo", "width">> >>,
           <<"thumbnail_url", <<"uploadInfo", "imageUrl">> >> }
    [] k = "Snippet" ->
         { <<"id", <<"snippetId">> >>, <<"url", <<"url">> >>,
           <<"title", <<"title">> >>, <<"description", <<"description">> >>,
           <<"domain", <<"domain">> >> }
    [] k = "ArtistProfile" ->
         { <<"official_name", <<"officialName">> >>,
           <<"official_image_url", <<"officialImageUrl">> >>,
           <<"birthday", <<"birthday", "date">> >> }
    [] k = "PartialMember" -> PartialMemberRequired
    [] k = "Artist" ->
         PartialMemberRequired
           \cup { <<"community_id", <<"communityId">> >>,
                  <<"join_date", <<"joinedDate">> >> }
    [] k = "PostAuthor" ->
         PartialMemberRequired
           \cup { <<"community_id", <<"communityId">> >>,
                  <<"has_joined", <<"joined">> >>,
                  <<"is_official", <<"hasOfficialMark">> >>,
                  <<"is_my_profile", <<"myProfile">> >> }
    [] k = "Member" ->
         PartialMemberRequired
           \cup { <<"community_id", <<"communityId">> >>,
                  <<"has_joined", <<"joined">> >>,
                  <<"has_membership", <<"hasMembership">> >>,
                  <<"is_official", <<"hasOfficialMark">> >>,
                  <<"is_hidden", <<"hidden">> >>, <<"is_blinded", <<"blinded">> >>,
                  <<"is_followed", <<"followed">> >>,
                  <<"is_my_profile", <<"myProfile">> >>,
                  <<"first_joined_at", <<"firstJoinAt">> >> }
    [] k \in {"PostLike", "Post"} ->
         { <<"id", <<"postId">> >>, <<"body", <<"body">> >>,
           <<"plain_body", <<"plainBody">> >>, <<"url", <<"shareUrl">> >>,
           <<"like_count", <<"emotionCount">> >>,
           <<"comment_count", <<"commentCount">> >>,
           <<"published_at", <<"publishedAt">> >>,
           <<"is_bookmarked", <<"bookmarked">> >>, <<"is_locked", <<"locked">> >>,
           <<"is_hidden_from_artist", <<"hideFromArtist">> >>,
           <<"is_membership_only", <<"membershipOnly">> >>,
           <<"has_product", <<"hasProduct">> >>, <<"hashtags", <<"tags">> >>,
           <<"post_type", <<"postType">> >>,
           <<"section_type", <<"sectionType">> >> }

RECURSIVE At(_, _)
\* the value a mapping holds at a key path
At(d, p) == IF Len(p) = 1 THEN Lookup(d, p[1]) ELSE At(Lookup(d, p[1]), Tail(p))

IsPrefix(p, q) == Len(p) <= Len(q) /\ \A j \in 1..Len(p) : p[j] = q[j]

\* the key paths through which optional data is read, nested classes included
OptionalPaths(k) ==
  { <<o.key>> : o \in OptionalFields(k) }
    \cup (IF k \in {"PostLike", "Post"}
            THEN { <<"author", o.key>> : o \in OptionalFields("PostAuthor") }
            ELSE {})

\* the key paths of the payload d of class k that the constructor of k
\* requires: every key read outside optional data.  The keys nested under
\* "community" belong to PartialCommunity and a post's "attachment" is read
\* by the accessors only: neither is counted.
RequiredPaths(k, d) ==
  { p \in Paths(d) :
      /\ \A o \in OptionalPaths(k) : ~IsPrefix(o, p)
      /\ ~(IsPrefix(<<"community">>, p) /\ Len(p) > 1)
      /\ p[1] # "attachment" }

Fulls(k) == { FullData(k, i, x) : i \in 1..MaxId, x \in 1..MaxVal }

\* C6: a payload that is complete but for one optional field's key (the
\* enclosing sub-object's key, for a field read through a sub-object)
\* constructs, with that field None and every required field holding the
\* payload's value.
C6_OmittedOptionalIsNone ==
  out.op = "new" =>
    \A full \in Fulls(kind) : \A o \in OptionalFields(kind) :
      data = Drop(full, <<o.key>>)
        => /\ out.r.ok
           /\ out.r.v[o.attr] = Null
           /\ \A q \in RequiredFields(kind) : out.r.v[q[1]] = At(data, q[2])
           /\ a = out.r.v

\* C6's case: a Member payload without "followCount"
C6_Witness ==
  /\ out.op = "new"
  /\ kind = "Member"
  /\ data = Drop(MemberData(1, 1), <<"followCount">>)
  /\ out.r.ok
  /\ out.r.v.follow_count = Null
  /\ out.r.v.first_joined_at = F(14, 1)

\* C7: whatever is stored under the optional keys of an otherwise complete
\* payload (the key dropped, set to null, set to an empty mapping, or a key
\* nested under it dropped or emptied), construction succeeds.
C7_OptionalNeverFails ==
  out.op = "new" =>
    \A full \in Fulls(kind) : \A p \in Paths(full) :
      ((\E o \in OptionalPaths(kind) : IsPrefix(o, p))
        /\ data \in {Drop(full, p), Put(full, p, Null), Put(full, p, EmptyMap)})
        => out.r.ok

\* C8: a payload lacking one required key, nested keys included, makes
\* construction fail: the caller gets an exception and no object.
C8_MissingRequiredFails ==
  out.op = "new" =>
    \A full \in Fulls(kind) : \A p \in RequiredPaths(kind, full) :
      data = Drop(full, p) => (~out.r.ok /\ out.r.v = Null /\ a = None)

\* C8's case: a post-like payload whose author lacks "memberId"
C8_Witness ==
  /\ out.op = "new"
  /\ kind = "PostLike"
  /\ data = Drop(PostLikeData(1, 1), <<"author", "memberId">>)
  /\ ~out.r.ok
  /\ a = None

\* C9: whenever Member, Artist or PostAuthor construction succeeds,
\* PartialMember construction from the same payload succeeds with the same
\* id, name, image_url and profile_type.
C9_SpecializationSuperset ==
  (out.op = "new" /\ kind \in {"Member", "Artist", "PostAuthor"} /\ out.r.ok)
    => LET pm == PartialMember(data)
       IN /\ pm.ok
          /\ pm.v.id = out.r.v.id
          /\ pm.v.name = out.r.v.name
          /\ pm.v.image_url = out.r.v.image_url
          /\ pm.v.profile_type = out.r.v.profile_type

\* C9's case: a Member built from a payload holding both a profile image
\* and a cover image
C9_Witness ==
  /\ out.op = "new"
  /\ kind = "Member"
  /\ out.r.ok
  /\ data = MemberData(2, 1)
  /\ out.r.v.image_url = F(2, 1)

\* what a raised exception tells its handler: its class and its argument
ErrorNames(r) == {r.exc, r.arg}

\* C10 as claimed: when a required key is absent the failure identifies both
\* the missing field and the entity kind under construction.
C10_ErrorNamesFieldAndKind ==
  out.op = "new" =>
    \A full \in Fulls(kind) : \A p \in RequiredPaths(kind, full) :
      data = Drop(full, p)
        => /\ ~out.r.ok
           /\ p[Len(p)] \in ErrorNames(out.r)
           /\ kind \in ErrorNames(out.r)

\* C10 as amended: when a required key is absent the failure is a KeyError
\* whose argument is the absent key (the nested key's own name for a nested
\* key); it names the field only.
C10_ErrorNamesField ==
  out.op = "new" =>
    \A full \in Fulls(kind) : \A p \in RequiredPaths(kind, full) :
      data = Drop(full, p)
        => /\ ~out.r.ok
           /\ out.r.exc = "KeyError"
           /\ out.r.arg = p[Len(p)]

\* C10's case: a video payload whose "uploadInfo" lacks "playTime"
C10_Witness ==
  /\ out.op = "new"
  /\ kind = "Video"
  /\ data = Drop(VideoData(1, 1), <<"uploadInfo", "playTime">>)
  /\ out.r = Err("KeyError", "playTime")

\* the list an accessor owes for the payload d: one object per value of its
\* bucket, in key-insertion order; none when the bucket is missing or empty
Derived(d, op) ==
  LET att == Lookup(d, "attachment")
      k == BucketOf(op).key
  IN IF ~HasKey(att, k) THEN <<>>
     ELSE [j \in 1..Len(Lookup(att, k).m) |->
             New(BucketOf(op).cls, Lookup(att, k).m[j][2]).v]

\* C11: the accessors are never memoized.  Whatever accessor calls and
\* changes of the retained mapping came before, a call returns the list
\* derived from the attachment section as it is at that call; the call
\* leaves the post (its retained mapping and its stored fields) as it was;
\* and a call that follows a call of the same accessor with no change in
\* between returns a list of the same length whose elements are equal, one
\* by one, to the earlier list's.
C11_NeverMemoized ==
  out.op \in Accessors =>
    /\ out.r = Ok(Derived(a.data, out.op))
    /\ a = out.before
    /\ out.last.op = out.op =>
         /\ out.last.r.ok
         /\ Len(out.last.r.v) = Len(out.r.v)
         /\ \A j \in 1..Len(out.r.v) :
              EqOperator(out.r.v[j], out.last.r.v[j]) = Ok(TRUE)

\* C11's case: photos read twice in a row after the bucket, which began with
\* one entry, has been changed to hold two whose first is a rewritten entry
C11_Witness ==
  /\ out.op = "photos"
  /\ out.last.op = "photos"
  /\ kind = "Photo"
  /\ out.r.ok
  /\ Len(out.r.v) = 2
  /\ out.r.v[1].data = PhotoData(1, MaxVal)
  /\ MaxVal > 1

====
